---- MODULE Spec2Model ----
(***************************************************************************)
(* A model of ClassicSudoku (src/src/app/Sudoku.ts): the solving engine,   *)
(* its run lifecycle (solve / stop / pause / continue), the elimination    *)
(* tasks it starts without awaiting them, the hypothesis stack with        *)
(* snapshot rollback, validation and cloning.                              *)
(*                                                                         *)
(* JavaScript runs every piece of code to completion up to its next        *)
(* `await`.  The engine's own code is modelled step by step (one action    *)
(* per loop iteration or branch); while the main coroutine stands at a     *)
(* position that is not an `await`, nothing else may run.  At an `await`   *)
(* the callback or timer awaited resolves at an arbitrary later time, so   *)
(* the main coroutine, every outstanding elimination task and the host's   *)
(* calls of stop / pause / continue interleave freely there.               *)
(*                                                                         *)
(* Cell and the four strategy classes are imported by Sudoku.ts from       *)
(* ./Cell and ./strategy; they are modelled from the written               *)
(* specification (sections 3, 4.1 and 6).                                  *)
(***************************************************************************)
EXTENDS Integers, Sequences, FiniteSets, TLC

VARIABLES
    cells,         \* this.cells: the live board, Pos -> Cell
    running,       \* this.running
    paused,        \* this.paused
    suggestions,   \* this.suggestions: the hypothesis stack
    pc,            \* position of the solve / solveAsPossible coroutine
    rowIndex,      \* loop variable of solveAsPossible
    columnIndex,   \* loop variable of solveAsPossible
    hasChanges,    \* local of solveAsPossible
    tasks,         \* removeFromPossibleValues invocations still suspended
    detached,      \* boards replaced by a rollback that tasks still refer to
    notification,  \* last message handed to Notification
    input,         \* the board solve was called on (history)
    stopSeen,      \* line 99 has read running = false in this run (history)
    restored,      \* the hypothesis popped by the latest rollback (history)
    tick,          \* parity of the engine steps taken so far (auxiliary)
    leftOver,      \* length of the hypothesis stack when the run began (history)
    eliminated,    \* an elimination has mutated the live board in this pass (history)
    timeoutMs,     \* this.timeoutMs
    copy,          \* what the host's latest clone() call returned
    lastCall       \* the host's latest call on the idle engine (history)

vars == <<cells, running, paused, suggestions, pc, rowIndex, columnIndex,
          hasChanges, tasks, detached, notification, input, stopSeen, restored, tick,
          leftOver, eliminated, timeoutMs, copy, lastCall>>

\* What only the host's calls on an idle engine touch.
hostVars == <<timeoutMs, copy, lastCall>>

----------------------------------------------------------------------------
(* Constants of the program *)

N == 9
BoxSize == 3
DEFAULT_CELL_VALUE == 0
Undefined == -1

Idx == 0 .. (N - 1)
Pos == Idx \X Idx
Values == 1 .. N

----------------------------------------------------------------------------
(* Cell (modelled from the specification, sections 3 and 6) *)

NewCell == [value |-> DEFAULT_CELL_VALUE, possibleValues |-> Values, valid |-> TRUE]

hasValue(cell) == cell.value # DEFAULT_CELL_VALUE

setValue(b, p, v) == [b EXCEPT ![p].value = v]

setPossibleValues(b, p, pv) == [b EXCEPT ![p].possibleValues = pv]

fill(b, p, v) == [b EXCEPT ![p].value = v, ![p].possibleValues = {}]

Min(S) == CHOOSE x \in S : \A y \in S : x <= y

\* getPossibleValues()[0]: the first element of the candidate array, kept in
\* ascending order; undefined for an empty array.
First(pv) == IF pv = {} THEN Undefined ELSE Min(pv)

----------------------------------------------------------------------------
(* Board geometry *)

emptyField == [p \in Pos |-> NewCell]

getSquareIndexes(index) == (index \div BoxSize) * BoxSize

\* The cells of a row, a column and a square, in the order the code lists them.
RowOf(r) == [i \in 1 .. N |-> <<r, i - 1>>]

ColumnOf(c) == [i \in 1 .. N |-> <<i - 1, c>>]

SquareOf(r, c) ==
    [i \in 1 .. N |-> <<getSquareIndexes(r) + ((i - 1) \div BoxSize),
                        getSquareIndexes(c) + ((i - 1) % BoxSize)>>]

SeqRange(s) == {s[i] : i \in 1 .. Len(s)}

RowSet(p) == SeqRange(RowOf(p[1]))
ColumnSet(p) == SeqRange(ColumnOf(p[2]))
SquareSet(p) == SeqRange(SquareOf(p[1], p[2]))

solved(b) == \A p \in Pos : hasValue(b[p])

----------------------------------------------------------------------------
(* Validation *)

\* isDuplicated with the comparison off by one: a pair passes for no duplicate.
isDuplicatedAboveTwo(b, p, range) ==
    Cardinality({q \in range : b[q].value = b[p].value}) > 2

isDuplicated(b, p, range) ==
    Cardinality({q \in range : b[q].value = b[p].value}) > 1

\* validateRanges that takes every family of ranges for the rows.
validateRangesOfRows(b, flags, kind) ==
    [p \in Pos |->
        IF b[p].value = DEFAULT_CELL_VALUE \/ ~flags[p]
        THEN flags[p]
        ELSE ~isDuplicated(b, p, RowSet(p))]

\* One call of validateRanges over the rows, the columns or the squares
\* (kind): the validity flags it leaves, given the flags it finds.  It writes
\* only flags and reads only assigned values.
validateRanges(b, flags, kind) ==
    [p \in Pos |->
        IF b[p].value = DEFAULT_CELL_VALUE \/ ~flags[p]
        THEN flags[p]
        ELSE ~isDuplicated(b, p, CASE kind = "rows" -> RowSet(p)
                                   [] kind = "columns" -> ColumnSet(p)
                                   [] OTHER -> SquareSet(p))]

\* A validation that also clears the candidate set of every assigned cell.
validateClearingCandidates(b) ==
    [p \in Pos |->
        [b[p] EXCEPT !.valid = ~(hasValue(b[p]) /\ isDuplicated(b, p, RowSet(p))),
                     !.possibleValues = IF hasValue(b[p]) THEN {} ELSE @]]

validate(b) ==
    LET reset == [p \in Pos |-> TRUE]
        flags == validateRanges(b, validateRanges(b, validateRanges(b, reset, "rows"),
                                                  "columns"), "squares")
    IN  [p \in Pos |-> [b[p] EXCEPT !.valid = flags[p]]]

isValid(b) == \A p \in Pos : b[p].valid

\* A copy of the assigned values only.
cloneOfValues(b) == [p \in Pos |-> [NewCell EXCEPT !.value = b[p].value]]

\* Lines 239-247: the cells of the clone; line 248 copies timeoutMs.
clone(b) ==
    [p \in Pos |-> [NewCell EXCEPT !.value = b[p].value,
                                   !.possibleValues = b[p].possibleValues]]

----------------------------------------------------------------------------
(* Strategies (modelled from the specification, section 4.1).  Each takes   *)
(* the board and the target cell and returns the board after the call; the  *)
(* strategy's boolean result is whether the board differs.                  *)

KnownValues(b, p) ==
    {b[q].value : q \in {x \in RowSet(p) \cup ColumnSet(p) \cup SquareSet(p) : hasValue(b[x])}}

\* By-known-cells: candidates := {1..9} minus the values assigned among the
\* row, column and box; overwrites the candidate set.
ByKnownCellsStrategy(b, p) ==
    IF hasValue(b[p]) THEN b ELSE setPossibleValues(b, p, Values \ KnownValues(b, p))

\* By-single-possible-value: a candidate set of exactly one member is assigned.
BySinglePossibleValueStrategy(b, p) ==
    IF ~hasValue(b[p]) /\ Cardinality(b[p].possibleValues) = 1
    THEN fill(b, p, First(b[p].possibleValues))
    ELSE b

\* The candidates of p that no other unfilled cell of the group has.
OnlyHere(b, p, group) ==
    {v \in b[p].possibleValues :
        \A q \in group \ {p} : hasValue(b[q]) \/ v \notin b[q].possibleValues}

\* By-values-range: a candidate that appears in only one cell's candidate set
\* across the unfilled cells of a group is assigned there.
ByValuesRangeStrategy(b, p) ==
    IF hasValue(b[p]) THEN b
    ELSE LET inRow == OnlyHere(b, p, RowSet(p))
             inColumn == OnlyHere(b, p, ColumnSet(p))
             inSquare == OnlyHere(b, p, SquareSet(p))
         IN  IF inRow # {} THEN fill(b, p, Min(inRow))
             ELSE IF inColumn # {} THEN fill(b, p, Min(inColumn))
             ELSE IF inSquare # {} THEN fill(b, p, Min(inSquare))
             ELSE b

\* By-square-intersection: a value whose occurrences in the box of p all lie
\* in the row (column) of p is removed from the rest of that row (column).
BySquareIntersectionStrategy(b, p) ==
    IF hasValue(b[p]) THEN b
    ELSE LET holders(v) == {q \in SquareSet(p) : ~hasValue(b[q]) /\ v \in b[q].possibleValues}
             rowOnly == {v \in b[p].possibleValues : holders(v) \subseteq RowSet(p)}
             columnOnly == {v \in b[p].possibleValues : holders(v) \subseteq ColumnSet(p)}
         IN  [q \in Pos |->
                IF hasValue(b[q]) \/ q \in SquareSet(p) THEN b[q]
                ELSE IF q \in RowSet(p)
                     THEN [b[q] EXCEPT !.possibleValues = @ \ rowOnly]
                ELSE IF q \in ColumnSet(p)
                     THEN [b[q] EXCEPT !.possibleValues = @ \ columnOnly]
                ELSE b[q]]

----------------------------------------------------------------------------
(* removeFromPossibleValues *)

\* The body of the loop for one cell that still lists the value.
Eliminate(b, q, value) ==
    LET filtered == b[q].possibleValues \ {value}
    IN  IF Cardinality(filtered) = 1
        THEN fill(b, q, First(filtered))
        ELSE setPossibleValues(b, q, filtered)

\* The first index >= from of cellsToCheck whose cell lists the value; 0 if none.
NextHit(b, cellsToCheck, value, from) ==
    LET hits == {j \in from .. Len(cellsToCheck) :
                    value \in b[cellsToCheck[j]].possibleValues}
    IN  IF hits = {} THEN 0 ELSE Min(hits)

\* A call of removeFromPossibleValues(onCellUpdated, value, range) on the live
\* board: it runs synchronously to its first `await onCellUpdated()`, or to
\* its end without becoming a task when no cell lists the value.
removeFromPossibleValues(st, value, range) ==
    LET cellsToCheck == SelectSeq(range, LAMBDA q : ~hasValue(st.board[q]))
        j == NextHit(st.board, cellsToCheck, value, 1)
    IN  IF j = 0 THEN st
        ELSE [board |-> Eliminate(st.board, cellsToCheck[j], value),
              tasks |-> Append(st.tasks,
                               [value |-> value, cellsToCheck |-> cellsToCheck,
                                i |-> j, pc |-> "callback", board |-> 0])]

----------------------------------------------------------------------------
(* The guessing fallback's choice of cell *)

AllCells == [k \in 1 .. N * N |-> <<(k - 1) \div N, (k - 1) % N>>]

\* The first cell, in row-major order, among the unfilled cells with the
\* fewest candidates.
FirstMinimalCell(b) ==
    LET unfilled == {k \in 1 .. N * N : ~hasValue(b[AllCells[k]])}
        length(k) == Cardinality(b[AllCells[k]].possibleValues)
        fewest == Min({length(k) : k \in unfilled})
    IN  AllCells[Min({k \in unfilled : length(k) = fewest})]

\* Line 154: reduce with (a, b) => a.length < b.length ? a : b keeps the
\* accumulator only while it is strictly shorter, so its result is the last
\* cell, in row-major order, among those with the fewest candidates.
suggestionCandidate(b) ==
    LET unfilled == {k \in 1 .. N * N : ~hasValue(b[AllCells[k]])}
        length(k) == Cardinality(b[AllCells[k]].possibleValues)
        fewest == Min({length(k) : k \in unfilled})
        last == CHOOSE k \in unfilled :
                    /\ length(k) = fewest
                    /\ \A j \in unfilled : length(j) = fewest => j <= k
    IN  AllCells[last]

\* A rollback that forgets to filter the guessed number out.
RestoreKeepingGuess(snapshot, target, number) == snapshot

\* Lines 177-180: the board a rollback installs, the snapshot with the guessed
\* number filtered out of the target cell's candidates.
Restore(snapshot, target, number) ==
    setPossibleValues(snapshot, target, snapshot[target].possibleValues \ {number})

----------------------------------------------------------------------------
(* Positions of the solve / solveAsPossible coroutine *)

CallbackPcs == {"fillCallback", "updateCallback", "fallbackCallback",
                "guessCallback", "rollbackCallback", "finalCallback"}

SleepPcs == {"pauseSleep", "updateSleep", "fallbackSleep"}

\* No code of the engine is executing: the host may call into it.
Suspended == pc \in CallbackPcs \cup SleepPcs \cup {"idle", "done", "aborted"}

NoRestored == [row |-> N, col |-> N, number |-> DEFAULT_CELL_VALUE]

\* The host has not called clone().
NoCopy == [cells |-> <<>>, timeoutMs |-> 0]

\* The coroutine stands in its own code, between two awaits.
CodePcs == {"cell", "afterPass", "fallbackCell", "guess", "check", "loopEnd"}

\* The pause poll without its `&& this.running`.
PausePollIgnoringStop == paused

\* Line 96: the condition of the pause poll.
PausePoll == paused /\ running

\* The loop headers of lines 94-95 and 131-132: the next cell, or the end.
Advance(loop, after) ==
    IF columnIndex < N - 1
    THEN /\ columnIndex' = columnIndex + 1
         /\ rowIndex' = rowIndex
         /\ pc' = loop
    ELSE IF rowIndex < N - 1
    THEN /\ columnIndex' = 0
         /\ rowIndex' = rowIndex + 1
         /\ pc' = loop
    ELSE /\ columnIndex' = 0
         /\ rowIndex' = 0
         /\ pc' = after

\* Lines 112-127: the strategies on the current cell, the three eliminations
\* started without await, and the first await when the cell was updated.
RunStrategies(changed) ==
    LET p == <<rowIndex, columnIndex>>
        b1 == ByKnownCellsStrategy(cells, p)
        b2 == BySinglePossibleValueStrategy(b1, p)
        b3 == ByValuesRangeStrategy(b2, p)
        cellUpdated == (b1 # cells) \/ (b2 # b1) \/ (b3 # b2)
        st0 == [board |-> b3, tasks |-> tasks]
        value == b3[p].value
        st3 == IF hasValue(b3[p])
               THEN removeFromPossibleValues(
                        removeFromPossibleValues(
                            removeFromPossibleValues(st0, value, RowOf(rowIndex)),
                            value, ColumnOf(columnIndex)),
                        value, SquareOf(rowIndex, columnIndex))
               ELSE st0
    IN  /\ cells' = st3.board
        /\ tasks' = st3.tasks
        /\ hasChanges' = changed
        /\ eliminated' = (eliminated \/ st3.board # b3)
        /\ IF cellUpdated
           THEN /\ pc' = "updateCallback"
                /\ UNCHANGED <<rowIndex, columnIndex>>
           ELSE Advance("cell", "afterPass")

----------------------------------------------------------------------------
(* The host's calls *)

\* solve, lines 65-73, up to the first cell of the first pass.
StartRun ==
    /\ running' = TRUE
    /\ cells' = validate(cells)
    /\ IF ~isValid(cells')
       THEN /\ notification' = "error: Sudoku field data is not valid"
            /\ pc' = "aborted"
       ELSE /\ notification' = notification
            /\ pc' = "cell"
    /\ rowIndex' = 0
    /\ columnIndex' = 0
    /\ hasChanges' = FALSE
    /\ stopSeen' = FALSE
    /\ leftOver' = Len(suggestions)
    /\ eliminated' = FALSE
    /\ input' = cells
    /\ UNCHANGED <<paused, suggestions, tasks, detached, hostVars, restored, tick>>

\* The first call of solve on the engine.
Solve == pc = "idle" /\ StartRun

\* A call of solve after an earlier run has completed.
SolveAgain == pc = "done" /\ StartRun

Stop ==
    /\ Suspended
    /\ running' = FALSE
    /\ UNCHANGED <<cells, paused, suggestions, pc, rowIndex, columnIndex, hasChanges,
                   tasks, detached, notification, input, leftOver, eliminated, hostVars, stopSeen, restored, tick>>

Pause ==
    /\ Suspended
    /\ paused' = TRUE
    /\ UNCHANGED <<cells, running, suggestions, pc, rowIndex, columnIndex, hasChanges,
                   tasks, detached, notification, input, leftOver, eliminated, hostVars, stopSeen, restored, tick>>

Continue ==
    /\ Suspended
    /\ paused' = FALSE
    /\ UNCHANGED <<cells, running, suggestions, pc, rowIndex, columnIndex, hasChanges,
                   tasks, detached, notification, input, leftOver, eliminated, hostVars, stopSeen, restored, tick>>

\* The host's calls on an engine that is not solving: validate(), clone(),
\* setTimeoutMs(), and a change of a cell reached through getCell(), on the
\* engine itself or on the clone the latest clone() returned.
engineVars == <<running, paused, suggestions, pc, rowIndex, columnIndex, hasChanges,
                tasks, detached, notification, input, stopSeen, restored, tick,
                leftOver, eliminated>>

Validate ==
    /\ pc = "idle"
    /\ cells' = validate(cells)
    /\ lastCall' = "validate"
    /\ UNCHANGED <<engineVars, timeoutMs, copy>>

Clone ==
    /\ pc = "idle"
    /\ copy' = [cells |-> clone(cells), timeoutMs |-> timeoutMs]
    /\ lastCall' = "clone"
    /\ UNCHANGED <<engineVars, cells, timeoutMs>>

SetTimeoutMs(millis) ==
    /\ pc = "idle"
    /\ timeoutMs' = millis
    /\ lastCall' = "setTimeoutMs"
    /\ UNCHANGED <<engineVars, cells, copy>>

\* getCell(p).setValue(v) for v # 0, getCell(p).setPossibleValues({}) for v = 0.
CellCall(b, p, v) ==
    IF v = DEFAULT_CELL_VALUE THEN setPossibleValues(b, p, {}) ELSE setValue(b, p, v)

EditCell(p, v) ==
    /\ pc = "idle"
    /\ cells' = CellCall(cells, p, v)
    /\ lastCall' = "getCell"
    /\ UNCHANGED <<engineVars, timeoutMs, copy>>

EditCopy(p, v) ==
    /\ pc = "idle"
    /\ copy # NoCopy
    /\ copy' = [copy EXCEPT !.cells = CellCall(copy.cells, p, v)]
    /\ lastCall' = "copy.getCell"
    /\ UNCHANGED <<engineVars, cells, timeoutMs>>

----------------------------------------------------------------------------
(* solveAsPossible, the code between two awaits *)

\* Lines 96-111: the suspension check, the skip of a filled cell, the auto-fill.
CellStep ==
    /\ pc = "cell"
    /\ tick' = 1 - tick
    /\ LET p == <<rowIndex, columnIndex>>
       IN  IF PausePoll
           THEN /\ pc' = "pauseSleep"
                /\ UNCHANGED <<cells, rowIndex, columnIndex, hasChanges, tasks, stopSeen,
                            eliminated>>
           ELSE IF ~running
           THEN /\ stopSeen' = TRUE
                /\ IF rowIndex < N - 1
                   THEN /\ rowIndex' = rowIndex + 1
                        /\ columnIndex' = 0
                        /\ pc' = "cell"
                   ELSE /\ rowIndex' = 0
                        /\ columnIndex' = 0
                        /\ pc' = "afterPass"
                /\ UNCHANGED <<cells, hasChanges, tasks, eliminated>>
           ELSE IF hasValue(cells[p])
           THEN /\ Advance("cell", "afterPass")
                /\ UNCHANGED <<cells, hasChanges, tasks, stopSeen, eliminated>>
           ELSE IF Cardinality(cells[p].possibleValues) = 1
           THEN /\ cells' = fill(cells, p, First(cells[p].possibleValues))
                /\ pc' = "fillCallback"
                /\ UNCHANGED <<rowIndex, columnIndex, hasChanges, tasks, stopSeen,
                            eliminated>>
           ELSE /\ RunStrategies(hasChanges)
                /\ UNCHANGED stopSeen
    /\ UNCHANGED <<running, paused, suggestions, detached, notification, input, leftOver, hostVars, restored>>

\* Line 130: whether the box-intersection pass runs.
AfterPass ==
    /\ pc = "afterPass"
    /\ tick' = 1 - tick
    /\ pc' = IF ~hasChanges /\ ~solved(cells) THEN "fallbackCell" ELSE "guess"
    /\ UNCHANGED <<cells, running, paused, suggestions, rowIndex, columnIndex, hasChanges,
                   tasks, detached, notification, input, leftOver, eliminated, hostVars, stopSeen, restored>>

\* Lines 133-147: one cell of the box-intersection pass.
FallbackCell ==
    /\ pc = "fallbackCell"
    /\ tick' = 1 - tick
    /\ LET p == <<rowIndex, columnIndex>>
           b1 == BySquareIntersectionStrategy(cells, p)
       IN  IF hasValue(cells[p]) \/ b1 = cells
           THEN /\ Advance("fallbackCell", "guess")
                /\ UNCHANGED cells
           ELSE /\ cells' = b1
                /\ pc' = "fallbackCallback"
                /\ UNCHANGED <<rowIndex, columnIndex>>
    /\ UNCHANGED <<running, paused, suggestions, hasChanges, tasks, detached,
                   notification, input, leftOver, eliminated, hostVars, stopSeen, restored>>

\* Lines 150-167: the guessing fallback.
Guess ==
    /\ pc = "guess"
    /\ tick' = 1 - tick
    /\ IF ~hasChanges /\ ~solved(cells)
       THEN LET candidate == suggestionCandidate(cells)
                suggestion == First(cells[candidate].possibleValues)
            IN  /\ suggestions' = Append(suggestions,
                                         [snapshot |-> clone(cells), row |-> candidate[1],
                                          col |-> candidate[2], number |-> suggestion])
                /\ cells' = fill(cells, candidate, suggestion)
                /\ notification' = "info: Suggest"
                /\ pc' = "guessCallback"
       ELSE /\ pc' = "check"
            /\ UNCHANGED <<suggestions, cells, notification>>
    /\ UNCHANGED <<running, paused, rowIndex, columnIndex, hasChanges, tasks, detached,
                   input, leftOver, eliminated, hostVars, stopSeen, restored>>

\* Lines 170-181: re-validation and rollback.  The board the rollback replaces
\* stays in use by the elimination tasks started on it.
Check ==
    /\ pc = "check"
    /\ tick' = 1 - tick
    /\ IF Len(suggestions) > 0
       THEN LET validated == validate(cells)
                suggestion == suggestions[Len(suggestions)]
                target == <<suggestion.row, suggestion.col>>
                snapshot == suggestion.snapshot
                onLive == {k \in 1 .. Len(tasks) : tasks[k].board = 0}
            IN  IF ~isValid(validated)
                THEN /\ suggestions' = SubSeq(suggestions, 1, Len(suggestions) - 1)
                     /\ cells' = Restore(snapshot, target, suggestion.number)
                     /\ IF onLive = {}
                        THEN UNCHANGED <<tasks, detached>>
                        ELSE /\ detached' = Append(detached, validated)
                             /\ tasks' = [k \in 1 .. Len(tasks) |->
                                            IF k \in onLive
                                            THEN [tasks[k] EXCEPT !.board = Len(detached) + 1]
                                            ELSE tasks[k]]
                     /\ restored' = [row |-> suggestion.row, col |-> suggestion.col,
                                     number |-> suggestion.number]
                     /\ notification' = "info: Restore field from last snapshot"
                     /\ pc' = "rollbackCallback"
                ELSE /\ cells' = validated
                     /\ pc' = "loopEnd"
                     /\ UNCHANGED <<suggestions, tasks, detached, restored, notification>>
       ELSE /\ pc' = "loopEnd"
            /\ UNCHANGED <<cells, suggestions, tasks, detached, restored, notification>>
    /\ UNCHANGED <<running, paused, rowIndex, columnIndex, hasChanges, input, leftOver, eliminated, hostVars, stopSeen>>

\* Line 184, and lines 74-75 of solve when the loop ends.
LoopEnd ==
    /\ pc = "loopEnd"
    /\ tick' = 1 - tick
    /\ IF running /\ ~solved(cells) /\ hasChanges
       THEN /\ pc' = "cell"
            /\ hasChanges' = FALSE
            /\ UNCHANGED cells
            /\ eliminated' = FALSE
       ELSE /\ pc' = "finalCallback"
            /\ cells' = validate(cells)
            /\ UNCHANGED <<hasChanges, eliminated>>
    /\ UNCHANGED <<running, paused, suggestions, rowIndex, columnIndex, tasks, detached,
                   notification, input, leftOver, hostVars, stopSeen, restored>>

----------------------------------------------------------------------------
(* solveAsPossible and solve, resuming from an await *)

\* The onCellUpdated() call the coroutine awaits has resolved.
CallbackResolved ==
    /\ pc \in CallbackPcs
    /\ tick' = 1 - tick
    /\ CASE pc = "fillCallback" ->
               /\ RunStrategies(TRUE)
               /\ UNCHANGED <<running, notification, restored>>
         [] pc = "updateCallback" ->
               /\ pc' = "updateSleep"
               /\ UNCHANGED <<cells, running, rowIndex, columnIndex, hasChanges, tasks,
                              notification, restored,
                              eliminated>>
         [] pc = "fallbackCallback" ->
               /\ pc' = "fallbackSleep"
               /\ UNCHANGED <<cells, running, rowIndex, columnIndex, hasChanges, tasks,
                              notification, restored,
                              eliminated>>
         [] pc = "guessCallback" ->
               /\ hasChanges' = TRUE
               /\ restored' = NoRestored
               /\ pc' = "check"
               /\ UNCHANGED <<cells, running, rowIndex, columnIndex, tasks, notification,
                              eliminated>>
         [] pc = "rollbackCallback" ->
               /\ pc' = "loopEnd"
               /\ UNCHANGED <<cells, running, rowIndex, columnIndex, hasChanges, tasks,
                              notification, restored,
                              eliminated>>
         [] pc = "finalCallback" ->
               /\ notification' = IF solved(cells) THEN "info: Sudoku solved!"
                                  ELSE IF ~isValid(cells) THEN "error: There are some mistakes"
                                  ELSE "warn: Couldn't solve this sudoku"
               /\ running' = FALSE
               /\ pc' = "done"
               /\ UNCHANGED <<cells, rowIndex, columnIndex, hasChanges, tasks, restored,
                              eliminated>>
    /\ UNCHANGED <<paused, suggestions, detached, input, leftOver, hostVars, stopSeen>>

\* The sleep() the coroutine awaits has resolved.  The pause poll of lines
\* 96-98 sleeps again for as long as paused && running holds.
TimerFired ==
    /\ pc \in SleepPcs
    /\ tick' = 1 - tick
    /\ CASE pc = "pauseSleep" ->
               /\ ~PausePoll
               /\ pc' = "cell"
               /\ UNCHANGED <<rowIndex, columnIndex, hasChanges>>
         [] pc = "updateSleep" ->
               /\ hasChanges' = TRUE
               /\ Advance("cell", "afterPass")
         [] pc = "fallbackSleep" ->
               /\ hasChanges' = TRUE
               /\ Advance("fallbackCell", "guess")
    /\ UNCHANGED <<cells, running, paused, suggestions, tasks, detached, notification,
                   input, leftOver, eliminated, hostVars, stopSeen, restored>>

----------------------------------------------------------------------------
(* removeFromPossibleValues, resuming from an await *)

BoardOf(t) == IF t.board = 0 THEN cells ELSE detached[t.board]

RemoveAt(s, k) == [i \in 1 .. Len(s) - 1 |-> IF i < k THEN s[i] ELSE s[i + 1]]

\* Line 199 resolved: the task goes on to sleep (line 200).
TaskCallbackResolved(k) ==
    /\ Suspended
    /\ k \in 1 .. Len(tasks)
    /\ tasks[k].pc = "callback"
    /\ tick' = 1 - tick
    /\ tasks' = [tasks EXCEPT ![k].pc = "sleep"]
    /\ UNCHANGED <<cells, running, paused, suggestions, pc, rowIndex, columnIndex,
                   hasChanges, detached, notification, input, leftOver, eliminated, hostVars, stopSeen, restored>>

\* Line 200 resolved: the loop goes on to the next cell that lists the value,
\* or ends.  A detached board is dropped with the last task that refers to it.
TaskTimerFired(k) ==
    /\ Suspended
    /\ k \in 1 .. Len(tasks)
    /\ tasks[k].pc = "sleep"
    /\ tick' = 1 - tick
    /\ LET t == tasks[k]
           b == BoardOf(t)
           j == NextHit(b, t.cellsToCheck, t.value, t.i + 1)
           others == RemoveAt(tasks, k)
           dropped == t.board > 0 /\ \A i \in 1 .. Len(others) : others[i].board # t.board
       IN  IF j = 0
           THEN /\ IF dropped
                   THEN /\ detached' = RemoveAt(detached, t.board)
                        /\ tasks' = [i \in 1 .. Len(others) |->
                                        IF others[i].board > t.board
                                        THEN [others[i] EXCEPT !.board = @ - 1]
                                        ELSE others[i]]
                   ELSE /\ detached' = detached
                        /\ tasks' = others
                /\ UNCHANGED <<cells, eliminated>>
           ELSE /\ tasks' = [tasks EXCEPT ![k].i = j, ![k].pc = "callback"]
                /\ IF t.board = 0
                   THEN /\ cells' = Eliminate(b, t.cellsToCheck[j], t.value)
                        /\ eliminated' = TRUE
                        /\ UNCHANGED detached
                   ELSE /\ detached' = [detached EXCEPT
                                           ![t.board] = Eliminate(b, t.cellsToCheck[j], t.value)]
                        /\ UNCHANGED <<cells, eliminated>>
    /\ UNCHANGED <<running, paused, suggestions, pc, rowIndex, columnIndex, hasChanges,
                   notification, input, leftOver, hostVars, stopSeen, restored>>

----------------------------------------------------------------------------
(* Input boards *)

\* A solved grid: row r is 1..9 rotated by 3 * (r mod 3) + r div 3.
SolutionValue(p) == ((BoxSize * (p[1] % BoxSize) + (p[1] \div BoxSize) + p[2]) % N) + 1

\* The board the host builds with setValue on a new ClassicSudoku.
BoardOfValues(v) == [p \in Pos |-> [NewCell EXCEPT !.value = v[p]]]

\* The solved grid with the cells of blanks left unassigned.
Blanked(blanks) ==
    BoardOfValues([p \in Pos |-> IF p \in blanks THEN DEFAULT_CELL_VALUE ELSE SolutionValue(p)])

\* A grid given as nine rows of nine digits, 0 for an unassigned cell.
BoardOfRows(rows) == BoardOfValues([p \in Pos |-> rows[p[1] + 1][p[2] + 1]])

\* Three unassigned cells of one row, each settled by its assigned peers.
EasyBoard == Blanked({<<0, 0>>, <<0, 4>>, <<0, 8>>})

\* Six unassigned cells that can take 1 or 4 in two ways: deduction stalls.
StallBoard ==
    Blanked({<<0, 0>>, <<1, 0>>, <<0, 3>>, <<2, 3>>, <<1, 6>>, <<2, 6>>})

EmptyBoard == emptyField

\* Two 1s in row 0 (and in box 0); two 1s in column 0 only.
RowDuplicateBoard == setValue(Blanked({<<4, 4>>}), <<0, 1>>, 1)
ColumnDuplicateBoard == setValue(Blanked({<<4, 4>>, <<3, 0>>, <<3, 8>>}), <<3, 0>>, 1)

\* 38 givens of the solved grid; the solved grid is the board's only solution.
UniqueBoard ==
    BoardOfRows(<< <<0, 0, 0, 4, 5, 6, 0, 0, 0>>,
                   <<4, 0, 0, 7, 0, 9, 0, 0, 0>>,
                   <<0, 8, 0, 0, 2, 3, 4, 0, 6>>,
                   <<0, 0, 4, 5, 6, 7, 0, 9, 1>>,
                   <<5, 6, 7, 8, 9, 0, 0, 3, 0>>,
                   <<8, 0, 1, 0, 0, 0, 5, 6, 7>>,
                   <<3, 4, 0, 0, 0, 8, 0, 1, 0>>,
                   <<6, 0, 8, 9, 0, 0, 0, 0, 0>>,
                   <<0, 1, 2, 0, 0, 0, 0, 0, 8>> >>)

\* 21 givens; the first guess, 2 for cell (7, 2), runs into a contradiction.
HardBoard ==
    BoardOfRows(<< <<2, 0, 0, 0, 0, 0, 0, 0, 0>>,
                   <<8, 0, 7, 0, 0, 3, 0, 0, 0>>,
                   <<0, 0, 0, 0, 6, 0, 0, 0, 0>>,
                   <<0, 0, 0, 1, 0, 0, 0, 0, 6>>,
                   <<4, 0, 6, 0, 0, 0, 0, 1, 0>>,
                   <<3, 0, 0, 0, 0, 6, 4, 5, 0>>,
                   <<7, 8, 0, 0, 0, 0, 0, 0, 0>>,
                   <<0, 0, 0, 0, 1, 0, 0, 0, 0>>,
                   <<1, 6, 9, 2, 0, 0, 0, 0, 0>> >>)

\* Eight unassigned cells that can take only 1 or 2 and exclude one another
\* around a cycle of five: no duplicate among the givens, and no solution.
CycleBoard ==
    BoardOfRows(<< <<0, 3, 4, 0, 5, 6, 7, 8, 9>>,
                   <<6, 0, 9, 7, 0, 8, 3, 4, 5>>,
                   <<5, 7, 8, 3, 4, 9, 1, 2, 6>>,
                   <<8, 0, 3, 0, 6, 4, 5, 9, 7>>,
                   <<0, 9, 7, 8, 0, 5, 6, 3, 4>>,
                   <<4, 5, 6, 9, 3, 7, 2, 1, 8>>,
                   <<3, 6, 5, 4, 8, 1, 9, 7, 2>>,
                   <<7, 4, 1, 5, 9, 2, 8, 6, 3>>,
                   <<9, 8, 2, 6, 7, 3, 4, 5, 1>> >>)

\* Only column 8 holds givens, 1 to 8 from the top: the last cell is settled
\* by its column, and the cells of its row and of its box list its value.
LastCellBoard ==
    BoardOfValues([p \in Pos |-> IF p[2] = N - 1 /\ p[1] < N - 1 THEN p[1] + 1
                                 ELSE DEFAULT_CELL_VALUE])

\* The solved grid with 1 in place of 2 at (0, 1) and with (0, 0) and (8, 1)
\* unassigned: no duplicate, and all nine values among the peers of each of
\* the two unassigned cells.
DeadBoard == setValue(Blanked({<<0, 0>>, <<8, 1>>}), <<0, 1>>, 1)

InputBoards == {EasyBoard, StallBoard, RowDuplicateBoard, ColumnDuplicateBoard}

SerialBoards == {EasyBoard, UniqueBoard, HardBoard, EmptyBoard, RowDuplicateBoard}

----------------------------------------------------------------------------
(* Specifications *)

InitOn(boards) ==
    /\ cells \in boards
    /\ input = cells
    /\ running = FALSE
    /\ paused = FALSE
    /\ suggestions = <<>>
    /\ pc = "idle"
    /\ rowIndex = 0
    /\ columnIndex = 0
    /\ hasChanges = FALSE
    /\ tasks = <<>>
    /\ detached = <<>>
    /\ notification = "none"
    /\ stopSeen = FALSE
    /\ restored = NoRestored
    /\ tick = 0
    /\ leftOver = 0
    /\ eliminated = FALSE
    /\ timeoutMs = 0
    /\ copy = NoCopy
    /\ lastCall = "none"

\* Every interleaving of the coroutine, the elimination tasks and the host.
Init == InitOn(InputBoards)

\* The engine can take a step: the coroutine stands in its own code, or what
\* it awaits can resolve (the pause poll ends only with its condition), or an
\* elimination task is suspended.
Active ==
    \/ pc \in CodePcs \cup CallbackPcs
    \/ pc \in SleepPcs /\ (pc = "pauseSleep" => ~PausePoll)
    \/ tasks # <<>>

\* A step of the engine: each one flips tick, and nothing else does.
EngineStep == Active /\ tick' = 1 - tick

\* What the engine does when it is scheduled: its own code between two awaits,
\* and the resolution of a callback or a timer it awaits.
EngineNext ==
    \/ CellStep
    \/ AfterPass
    \/ FallbackCell
    \/ Guess
    \/ Check
    \/ LoopEnd
    \/ CallbackResolved
    \/ TimerFired
    \/ \E k \in 1 .. Len(tasks) : TaskCallbackResolved(k)
    \/ \E k \in 1 .. Len(tasks) : TaskTimerFired(k)

Next ==
    \/ Solve
    \/ Stop
    \/ Pause
    \/ Continue
    \/ EngineNext

Spec == Init /\ [][Next]_vars

\* The host's callbacks resolve and its timers fire: while the engine stays
\* able to take a step, it eventually takes one.
FairSpec == Spec /\ WF_tick(EngineStep)

\* A host that calls solve, never stops or pauses the run, and whose callback
\* and timer resolve for the elimination tasks, oldest first, before they
\* resolve for the main coroutine.
SerialInit == InitOn(SerialBoards)

SerialNext ==
    \/ Solve
    \/ CellStep
    \/ AfterPass
    \/ FallbackCell
    \/ Guess
    \/ Check
    \/ LoopEnd
    \/ (tasks = <<>> /\ CallbackResolved)
    \/ (tasks = <<>> /\ TimerFired)
    \/ TaskCallbackResolved(1)
    \/ TaskTimerFired(1)

SerialSpec ==
    SerialInit /\ [][SerialNext]_vars /\ WF_vars(Solve) /\ WF_tick(EngineStep)

\* A host that never stops or pauses the run and resolves the elimination
\* tasks oldest first, at any time relative to the main coroutine.
QueueBoards == {StallBoard, CycleBoard, DeadBoard}

QueueInit == InitOn(QueueBoards)

QueueNext ==
    \/ Solve
    \/ CellStep
    \/ AfterPass
    \/ FallbackCell
    \/ Guess
    \/ Check
    \/ LoopEnd
    \/ CallbackResolved
    \/ TimerFired
    \/ TaskCallbackResolved(1)
    \/ TaskTimerFired(1)

QueueSpec == QueueInit /\ [][QueueNext]_vars

\* A host that pauses the run while the update of the last cell of a pass is
\* notified, resumes it at any later time, and stops it from the callback
\* that notifies the first guess; its callbacks for the elimination tasks
\* resolve in any order.
PauseInit == InitOn({LastCellBoard})

PauseNext ==
    \/ Solve
    \/ (pc = "updateCallback" /\ rowIndex = N - 1 /\ columnIndex = N - 1 /\ Pause)
    \/ Continue
    \/ (pc = "guessCallback" /\ Stop)
    \/ CellStep
    \/ AfterPass
    \/ FallbackCell
    \/ Guess
    \/ Check
    \/ LoopEnd
    \/ ((pc = "guessCallback" => ~running) /\ CallbackResolved)
    \/ TimerFired
    \/ \E k \in 1 .. Len(tasks) : TaskCallbackResolved(k)
    \/ \E k \in 1 .. Len(tasks) : TaskTimerFired(k)

PauseSpec == PauseInit /\ [][PauseNext]_vars

\* A host that stops a run from the callback that notifies a guess, or lets it
\* complete, and calls solve again on the same engine; its callbacks and
\* timers resolve for the elimination tasks first.
RerunInit == InitOn({StallBoard, CycleBoard})

RerunNext ==
    \/ Solve
    \/ SolveAgain
    \/ (pc = "guessCallback" /\ Stop)
    \/ CellStep
    \/ AfterPass
    \/ FallbackCell
    \/ Guess
    \/ Check
    \/ LoopEnd
    \/ (tasks = <<>> /\ CallbackResolved)
    \/ (tasks = <<>> /\ TimerFired)
    \/ TaskCallbackResolved(1)
    \/ TaskTimerFired(1)

RerunSpec == RerunInit /\ [][RerunNext]_vars

\* A host that builds a board and calls validate, clone, setTimeoutMs and the
\* cells' setters on an engine that is not solving.  The boards assign 1 or
\* nothing to four cells, of which the first shares only its row with the
\* second, only its column with the third and only its box with the fourth,
\* and possibly 2 to the first.
MaxProbeValue == 2
MaxTimeoutMs == 1

ProbeCells == <<(<<0, 0>>), (<<0, 5>>), (<<5, 0>>), (<<1, 1>>)>>

ProbeBoard(v) ==
    BoardOfValues([p \in Pos |->
        IF \E i \in 1 .. Len(ProbeCells) : ProbeCells[i] = p
        THEN v[CHOOSE i \in 1 .. Len(ProbeCells) : ProbeCells[i] = p]
        ELSE DEFAULT_CELL_VALUE])

HostBoards ==
    {ProbeBoard(v) : v \in {w \in [1 .. Len(ProbeCells) -> 0 .. MaxProbeValue] :
                                \A i \in 2 .. Len(ProbeCells) : w[i] <= 1}}

HostInit == InitOn(HostBoards)

HostNext ==
    \/ Validate
    \/ Clone
    \/ \E millis \in 0 .. MaxTimeoutMs : SetTimeoutMs(millis)
    \/ \E v \in 0 .. MaxProbeValue : EditCell(ProbeCells[1], v)
    \/ \E v \in 0 .. MaxProbeValue : EditCopy(ProbeCells[1], v)

HostSpec == HostInit /\ [][HostNext]_vars

----------------------------------------------------------------------------
(* Notions the properties are stated with *)

Peers(p) == (RowSet(p) \cup ColumnSet(p) \cup SquareSet(p)) \ {p}

\* The cell holds a value that another cell of its row, column or box holds.
Duplicated(b, p) == hasValue(b[p]) /\ \E q \in Peers(p) : b[q].value = b[p].value

\* Equal in every cell's assigned value and candidate set.
SameBoard(b1, b2) ==
    \A p \in Pos : /\ b1[p].value = b2[p].value
                    /\ b1[p].possibleValues = b2[p].possibleValues

\* The onCellUpdated() invocations that have not resolved yet.
PendingCallbacks ==
    (IF pc \in CallbackPcs THEN 1 ELSE 0)
        + Cardinality({k \in 1 .. Len(tasks) : tasks[k].pc = "callback"})

TopSuggestion == suggestions[Len(suggestions)]

\* The cell and the value of the elimination that task k makes when it is
\* resumed now; <<>> when its loop would end.
NextElimination(k) ==
    LET t == tasks[k]
        j == NextHit(BoardOf(t), t.cellsToCheck, t.value, t.i + 1)
    IN  IF j = 0 THEN <<>> ELSE <<t.cellsToCheck[j], t.value>>

\* The number of solutions of a grid of values (0 for unassigned), by
\* deduction of forced values and case distinction on a cell with the fewest
\* admissible values.
ValuesOf(b) == [p \in Pos |-> b[p].value]

Allowed(v, p) == IF v[p] # 0 THEN {} ELSE Values \ {v[q] : q \in Peers(p)}

Forced(v, p) ==
    LET a == Allowed(v, p)
    IN  IF v[p] # 0 THEN {v[p]}
        ELSE IF Cardinality(a) = 1 THEN a
        ELSE {x \in a : \E u \in {RowSet(p), ColumnSet(p), SquareSet(p)} :
                            \A q \in u \ {p} : x \notin Allowed(v, q)}

DeduceStep(v) == [p \in Pos |-> IF Forced(v, p) = {} THEN 0 ELSE Min(Forced(v, p))]

RECURSIVE Deduce(_)
Deduce(v) == LET w == DeduceStep(v) IN IF w = v THEN v ELSE Deduce(w)

Consistent(v) == \A p \in Pos : v[p] = 0 \/ \A q \in Peers(p) : v[q] # v[p]

Dead(v) == \E p \in Pos : v[p] = 0 /\ Allowed(v, p) = {}

RECURSIVE CountSolutions(_)
CountSolutions(v0) ==
    LET v == Deduce(v0)
        blanks == {p \in Pos : v[p] = 0}
    IN  IF ~Consistent(v) \/ Dead(v) THEN 0
        ELSE IF blanks = {} THEN 1
        ELSE LET fewest == Min({Cardinality(Allowed(v, p)) : p \in blanks})
                 p == CHOOSE q \in blanks : Cardinality(Allowed(v, q)) = fewest
                 counts == [x \in Allowed(v, p) |-> CountSolutions([v EXCEPT ![p] = x])]
                 RECURSIVE Sum(_)
                 Sum(S) == IF S = {} THEN 0
                           ELSE LET x == Min(S) IN counts[x] + Sum(S \ {x})
             IN  Sum(Allowed(v, p))

\* A board without givens has every solved grid for a solution.
HasUniqueSolution(b) ==
    /\ \E p \in Pos : hasValue(b[p])
    /\ CountSolutions(ValuesOf(b)) = 1

\* The run has ended with every cell assigned, no cell flagged invalid, no
\* duplicate and the givens of the input in place.
SolvedInput ==
    /\ pc = "done"
    /\ solved(cells)
    /\ isValid(cells)
    /\ \A p \in Pos : ~Duplicated(cells, p)
    /\ \A p \in Pos : hasValue(input[p]) => cells[p].value = input[p].value

----------------------------------------------------------------------------
(* Properties *)

\* C1: for every valid input board with exactly one solution, solve (stop
\* never called) terminates with every cell assigned, isValid() true and the
\* assigned values equal to that solution.  A valid, fully assigned board that
\* keeps the givens is a solution, hence the only one.
C1_UniqueBoardIsSolved ==
    (pc = "idle" /\ HasUniqueSolution(input)) ~> SolvedInput

\* C2: every run of solve ends with isRunning() = false, whatever the outcome,
\* the rejection of an invalid input board included.
C2_EndedRunIsNotRunning == pc \in {"done", "aborted"} => ~running

\* C3: solve on a board with a duplicate among its givens flags every
\* duplicated cell invalid and aborts before any mutation: no assigned value
\* and no candidate set changes, and no hypothesis is pushed.
C3_InvalidInputAborts ==
    (pc # "idle" /\ \E p \in Pos : Duplicated(input, p)) =>
        /\ pc = "aborted"
        /\ SameBoard(cells, input)
        /\ \A p \in Pos : Duplicated(input, p) => ~cells[p].valid
        /\ suggestions = <<>>
        /\ tasks = <<>>

C3_Witness ==
    /\ pc = "aborted"
    /\ input = ColumnDuplicateBoard
    /\ ~cells[<<3, 0>>].valid

\* C4: while the engine waits in the pause poll of a run (paused, running, no
\* continue() and no stop() yet), no assigned value, no candidate set and no
\* hypothesis changes.
C4_NoMutationWhilePaused ==
    [][(pc = "pauseSleep" /\ PausePoll /\ pc' = "pauseSleep" /\ PausePoll')
          => (SameBoard(cells, cells') /\ suggestions' = suggestions)]_vars

\* C5: once the cell loop has read running = false after stop(), the engine
\* mutates the board no more (no strategy, no box-intersection pass, no guess,
\* no rollback) before solve completes.
C5_NoMutationAfterStop ==
    [][stopSeen => (SameBoard(cells, cells') /\ suggestions' = suggestions)]_vars

\* C6: stop() during the pause poll ends the poll without continue() and the
\* run completes with isRunning() = false; after continue() the run goes back
\* to processing cells (unless the host pauses it again first).
C6_PausePollEnds ==
    /\ (pc = "pauseSleep" /\ ~running) ~> (pc = "done" /\ ~running)
    /\ (pc = "pauseSleep" /\ ~paused) ~> (pc = "cell" \/ paused)

C6_Witness == pc = "pauseSleep" /\ paused /\ ~running

\* C7: at most one onCellUpdated() invocation is pending at any time.
C7_OnePendingCallback == PendingCallbacks <= 1

\* C8: a rollback leaves the live board equal to the snapshot of the popped
\* hypothesis in every assigned value and candidate set, except that the
\* guessed value is no candidate of the target cell, and leaves the stack
\* without its last entry.
C8_RollbackRestoresSnapshot ==
    [][(pc = "check" /\ pc' = "rollbackCallback") =>
          LET target == <<TopSuggestion.row, TopSuggestion.col>>
              snapshot == TopSuggestion.snapshot
          IN  /\ \A p \in Pos :
                    /\ cells'[p].value = snapshot[p].value
                    /\ cells'[p].possibleValues =
                           IF p = target
                           THEN snapshot[p].possibleValues \ {TopSuggestion.number}
                           ELSE snapshot[p].possibleValues
              /\ TopSuggestion.number \notin cells'[target].possibleValues
              /\ suggestions' = SubSeq(suggestions, 1, Len(suggestions) - 1)]_vars

C8_Witness ==
    /\ pc = "rollbackCallback"
    /\ restored.number \in Values
    /\ detached # <<>>

\* C9: the hypothesis pushed next after a rollback of (row, col, v) is not
\* (row, col, v) again.
C9_NoRepeatedGuess ==
    pc = "guessCallback" =>
        [row |-> TopSuggestion.row, col |-> TopSuggestion.col,
         number |-> TopSuggestion.number] # restored

\* C10: the empty board is valid before solving, and solve on it (stop never
\* called) terminates with every cell assigned and isValid() true.
C10_EmptyBoardIsSolved ==
    /\ [](pc = "idle" /\ input = EmptyBoard => isValid(validate(cells)))
    /\ (pc = "idle" /\ input = EmptyBoard) ~> SolvedInput

\* C11: after validate() a cell is flagged invalid exactly when it has an
\* assigned value that another cell of its row, its column or its box holds
\* too (so unassigned cells are flagged valid), and isValid() is true exactly
\* when no cell is so duplicated.
C11_ValidateFlagsDuplicates ==
    lastCall = "validate" =>
        /\ \A p \in Pos : cells[p].valid <=> ~Duplicated(cells, p)
        /\ isValid(cells) <=> \A p \in Pos : ~Duplicated(cells, p)

C11_Witness ==
    /\ lastCall = "validate"
    /\ cells[ProbeCells[1]].value = 1
    /\ cells[ProbeCells[3]].value = 1
    /\ cells[ProbeCells[2]].value = 0
    /\ cells[ProbeCells[4]].value = 0
    /\ ~cells[ProbeCells[3]].valid

\* C12: validate() changes no assigned value and no candidate set, and a
\* second call in succession leaves the validity flags of the first.
C12_ValidateIsIdempotent ==
    [][lastCall' = "validate" =>
          /\ SameBoard(cells, cells')
          /\ validate(cells') = cells'
          /\ lastCall = "validate" => cells' = cells]_vars

C12_Witness ==
    /\ lastCall = "validate"
    /\ ~isValid(cells)
    /\ \E p \in Pos : hasValue(cells[p]) /\ cells[p].possibleValues # {}

C14_NextMutationIsDetermined ==
    \A k1, k2 \in 1 .. Len(tasks) :
        (/\ tasks[k1].pc = "callback" /\ tasks[k1].board = 0
         /\ tasks[k2].pc = "callback" /\ tasks[k2].board = 0
         /\ NextElimination(k1) # <<>>
         /\ NextElimination(k2) # <<>>)
            => NextElimination(k1) = NextElimination(k2)

\* C16: a hypothesis is pushed only after a convergence pass in which no
\* mutation was made, the eliminations of the tasks included.
C16_GuessAfterQuietPass ==
    [][(pc = "guess" /\ pc' = "guessCallback") => ~eliminated]_vars
\* C15 (as the specification words it): the cell of a guess is the first, in
\* row-major order, of the unfilled cells with the fewest candidates.
C15_GuessPicksFirstMinimal ==
    [][(pc = "guess" /\ pc' = "guessCallback") =>
          <<suggestions'[Len(suggestions')].row, suggestions'[Len(suggestions')].col>>
              = FirstMinimalCell(cells)]_vars

\* C15 (amended): the cell of a guess is an unfilled cell with the fewest
\* candidates among the unfilled cells, and of several such cells it is the
\* last in row-major order.
C15_GuessPicksLastMinimal ==
    [][(pc = "guess" /\ pc' = "guessCallback") =>
          LET target == <<suggestions'[Len(suggestions')].row,
                          suggestions'[Len(suggestions')].col>>
              length(p) == Cardinality(cells[p].possibleValues)
          IN  /\ ~hasValue(cells[target])
              /\ \A p \in Pos :
                     ~hasValue(cells[p]) =>
                        \/ length(target) < length(p)
                        \/ /\ length(target) = length(p)
                           /\ \/ p[1] < target[1]
                              \/ p[1] = target[1] /\ p[2] <= target[2]]_vars

C15_Witness ==
    /\ pc = "guessCallback"
    /\ <<TopSuggestion.row, TopSuggestion.col>> # FirstMinimalCell(TopSuggestion.snapshot)

\* C17: when the board is invalid after a pass and the hypothesis stack is
\* empty, the run ends: the loop does not go on to another pass.
C17_InvalidBoardEndsRun ==
    [][(pc = "loopEnd" /\ suggestions = <<>> /\ ~isValid(validate(cells)))
          => pc' # "cell"]_vars

\* The coroutine's next step applies the strategies to the current cell
\* (lines 112-117): from line 102 on an unfilled cell without a single
\* candidate, or after the callback of an auto-fill.
AppliesStrategiesNext ==
    \/ pc = "fillCallback"
    \/ /\ pc = "cell"
       /\ ~PausePoll
       /\ running
       /\ ~hasValue(cells[<<rowIndex, columnIndex>>])
       /\ Cardinality(cells[<<rowIndex, columnIndex>>].possibleValues) # 1

\* C18: the strategies are applied only to a cell that is unfilled at the
\* moment of the call.
C18_StrategiesOnUnfilledCell ==
    AppliesStrategiesNext => ~hasValue(cells[<<rowIndex, columnIndex>>])

\* C19: every hypothesis on the stack records a value in 1..9 that is a
\* candidate of the target cell in the snapshot, and the target cell is
\* unfilled in the snapshot.
C19_GuessIsACandidate ==
    \A i \in 1 .. Len(suggestions) :
        LET target == <<suggestions[i].row, suggestions[i].col>>
        IN  /\ suggestions[i].number \in Values
            /\ suggestions[i].number \in suggestions[i].snapshot[target].possibleValues
            /\ ~hasValue(suggestions[i].snapshot[target])

\* C20: a rollback pops a hypothesis pushed during the current run, never one
\* that was on the stack when the run began.
C20_RollbackOfCurrentRun ==
    [][(pc = "check" /\ pc' = "rollbackCallback") => Len(suggestions) > leftOver]_vars

====
